---- MODULE Spec2Model ----
(***************************************************************************)
(* A model of the MCP time server (server.py): eight stateless tools that  *)
(* wrap the standard date/time library, each inside a try/except that      *)
(* turns a fault into an error payload.                                    *)
(*                                                                         *)
(* Text arguments are sequences of one-character strings.  An instant      *)
(* since the Unix epoch is a pair <<days, second of day>>, because the     *)
(* years 1..9999 in seconds do not fit TLC's 32-bit integers; a duration   *)
(* is the library's own normal form [days, seconds, microseconds].         *)
(***************************************************************************)
EXTENDS Integers, Sequences, FiniteSets, TLC

VARIABLES
  host,    \* the machine the server runs on: local zone, width of time_t, C library
  now,     \* the wall clock, a UTC instant [d, s, us]
  call,    \* the last tool call: [op, args]
  reply,   \* what that call returned (or the fault that escaped it)
  prior    \* the reply the same call got at an earlier wall-clock instant, if re-issued

vars == <<host, now, call, reply, prior>>

(***************************************************************************)
(* Calendar arithmetic of the datetime library (proleptic Gregorian).      *)
(***************************************************************************)
MINYEAR == 1
MAXYEAR == 9999
SecPerDay == 86400
\* date(1970, 1, 1).toordinal()
EpochOrdinal == 719163
\* date(9999, 12, 31).toordinal()
MaxOrdinal == 3652059

IsLeap(y) == (y % 4 = 0) /\ ((y % 100 # 0) \/ (y % 400 = 0))

DaysBeforeYear(y) ==
  LET p == y - 1 IN p * 365 + (p \div 4) - (p \div 100) + (p \div 400)

DaysInMonth(y, m) ==
  IF m = 2 THEN (IF IsLeap(y) THEN 29 ELSE 28)
  ELSE IF m \in {4, 6, 9, 11} THEN 30 ELSE 31

RECURSIVE DaysBeforeMonth(_, _)
DaysBeforeMonth(y, m) ==
  IF m = 1 THEN 0 ELSE DaysBeforeMonth(y, m - 1) + DaysInMonth(y, m - 1)

Ymd2Ord(y, m, d) == DaysBeforeYear(y) + DaysBeforeMonth(y, m) + d

\* The library's _ord2ymd: 400-, 100-, 4- and 1-year cycles, then the month.
Ord2Ymd(ord) ==
  LET n0   == ord - 1
      n400 == n0 \div 146097
      r400 == n0 % 146097
      n100 == r400 \div 36524
      r100 == r400 % 36524
      n4   == r100 \div 1461
      r4   == r100 % 1461
      n1   == r4 \div 365
      r1   == r4 % 365
      y0   == n400 * 400 + 1 + n100 * 100 + n4 * 4 + n1
  IN IF n1 = 4 \/ n100 = 4
     THEN [year |-> y0 - 1, month |-> 12, day |-> 31]
     ELSE LET m == CHOOSE k \in 1..12 :
                     /\ DaysBeforeMonth(y0, k) <= r1
                     /\ r1 < DaysBeforeMonth(y0, k) + DaysInMonth(y0, k)
          IN [year |-> y0, month |-> m, day |-> r1 - DaysBeforeMonth(y0, m) + 1]

\* datetime.weekday(): Monday is 0.
Weekday(ord) == (ord + 6) % 7

(***************************************************************************)
(* datetime.strptime(date_string, format_string): the format is compiled   *)
(* to a regular expression (one group per directive, a run of blanks       *)
(* becomes \s+, letters match in either case), the text is matched from    *)
(* its start with backtracking, and the groups are converted to the fields *)
(* of a datetime, whose constructor validates them.  Modelled directives:  *)
(* %Y %m %d %H %M %S %f %z %%; of %z the optional seconds of an offset are *)
(* left out (no text below carries them).                                  *)
(***************************************************************************)
Digits == {"0", "1", "2", "3", "4", "5", "6", "7", "8", "9"}
DigitSeq == <<"0", "1", "2", "3", "4", "5", "6", "7", "8", "9">>
DigitVal(c) == (CHOOSE k \in 1..10 : DigitSeq[k] = c) - 1
KnownDirectives == {"Y", "m", "d", "H", "M", "S", "f", "z"}

\* str.lower() on the letters that occur in the formats and texts below
Lower(c) ==
  CASE c = "T" -> "t"
    [] c = "Z" -> "z"
    [] c = "A" -> "a"
    [] c = "U" -> "u"
    [] c = "C" -> "c"
    [] c = "N" -> "n"
    [] c = "Y" -> "y"
    [] c = "M" -> "m"
    [] c = "E" -> "e"
    [] c = "R" -> "r"
    [] c = "I" -> "i"
    [] c = "K" -> "k"
    [] c = "O" -> "o"
    [] c = "S" -> "s"
    [] OTHER -> c

At(text, i) == IF i >= 1 /\ i <= Len(text) THEN text[i] ELSE ""

RECURSIVE ToInt(_)
ToInt(ds) ==
  IF ds = <<>> THEN 0
  ELSE ToInt(SubSeq(ds, 1, Len(ds) - 1)) * 10 + DigitVal(ds[Len(ds)])

\* TimeRE.pattern(): the format as a sequence of tokens.
RECURSIVE Tokenize(_, _)
Tokenize(fmt, i) ==
  IF i > Len(fmt) THEN <<>>
  ELSE IF fmt[i] = " "
    THEN IF At(fmt, i + 1) = " " THEN Tokenize(fmt, i + 1)
         ELSE <<[t |-> "ws", c |-> " "]>> \o Tokenize(fmt, i + 1)
  ELSE IF fmt[i] = "%"
    THEN IF i = Len(fmt) THEN <<[t |-> "stray", c |-> "%"]>>
         ELSE IF fmt[i + 1] = "%"
           THEN <<[t |-> "lit", c |-> "%"]>> \o Tokenize(fmt, i + 2)
         ELSE IF fmt[i + 1] \in KnownDirectives
           THEN <<[t |-> "dir", c |-> fmt[i + 1]]>> \o Tokenize(fmt, i + 2)
         ELSE <<[t |-> "bad", c |-> fmt[i + 1]]>>
  ELSE <<[t |-> "lit", c |-> fmt[i]]>> \o Tokenize(fmt, i + 1)

\* How many of the characters from position p on lie in cls, up to max.
RECURSIVE RunLen(_, _, _, _)
RunLen(text, p, cls, max) ==
  IF max = 0 \/ At(text, p) \notin cls THEN 0
  ELSE 1 + RunLen(text, p + 1, cls, max - 1)

RECURSIVE DownTo(_)
DownTo(n) == IF n <= 0 THEN <<>> ELSE <<n>> \o DownTo(n - 1)

Opt(cond, len) == IF cond THEN <<len>> ELSE <<>>

\* The lengths a token can match at position p, in the order the regular
\* expression tries its alternatives.
Candidates(tok, text, p) ==
  LET c1 == At(text, p)
      c2 == At(text, p + 1)
      NonZero == Digits \ {"0"}
  IN CASE tok.t = "lit" -> Opt(c1 # "" /\ Lower(c1) = Lower(tok.c), 1)
       [] tok.t = "ws"  -> DownTo(RunLen(text, p, {" "}, Len(text)))
       [] tok.c = "Y"   -> Opt(RunLen(text, p, Digits, 4) = 4, 4)
       [] tok.c = "m"   ->
            Opt((c1 = "1" /\ c2 \in {"0", "1", "2"}) \/ (c1 = "0" /\ c2 \in NonZero), 2)
            \o Opt(c1 \in NonZero, 1)
       [] tok.c = "d"   ->
            Opt(\/ (c1 = "3" /\ c2 \in {"0", "1"})
                \/ (c1 \in {"1", "2"} /\ c2 \in Digits)
                \/ (c1 = "0" /\ c2 \in NonZero), 2)
            \o Opt(c1 \in NonZero, 1)
            \o Opt(c1 = " " /\ c2 \in NonZero, 2)
       [] tok.c = "H"   ->
            Opt(\/ (c1 = "2" /\ c2 \in {"0", "1", "2", "3"})
                \/ (c1 \in {"0", "1"} /\ c2 \in Digits), 2)
            \o Opt(c1 \in Digits, 1)
       [] tok.c = "M"   ->
            Opt(c1 \in {"0", "1", "2", "3", "4", "5"} /\ c2 \in Digits, 2)
            \o Opt(c1 \in Digits, 1)
       [] tok.c = "S"   ->
            Opt(\/ (c1 = "6" /\ c2 \in {"0", "1"})
                \/ (c1 \in {"0", "1", "2", "3", "4", "5"} /\ c2 \in Digits), 2)
            \o Opt(c1 \in Digits, 1)
       [] tok.c = "f"   -> DownTo(RunLen(text, p, Digits, 6))
       [] tok.c = "z"   ->
            LET signed == c1 \in {"+", "-"} /\ RunLen(text, p + 1, Digits, 2) = 2
                mm(q)  == At(text, q) \in {"0", "1", "2", "3", "4", "5"}
                            /\ At(text, q + 1) \in Digits
            IN Opt(signed /\ At(text, p + 3) = ":" /\ mm(p + 4), 6)
               \o Opt(signed /\ mm(p + 3), 5)
               \o Opt(c1 = "Z", 1)

\* re.match: the first way, in the expression's order, to match every token;
\* the groups found are <<directive, matched text>> pairs.
RECURSIVE Match(_, _, _)
RECURSIVE FirstMatch(_, _, _, _, _)
Match(toks, text, p) ==
  IF toks = <<>> THEN [ok |-> TRUE, end |-> p, groups |-> <<>>]
  ELSE FirstMatch(Candidates(Head(toks), text, p), 1, toks, text, p)

FirstMatch(cands, k, toks, text, p) ==
  IF k > Len(cands) THEN [ok |-> FALSE, end |-> p, groups |-> <<>>]
  ELSE LET r == Match(Tail(toks), text, p + cands[k])
       IN IF r.ok
          THEN [ok |-> TRUE, end |-> r.end,
                groups |-> (IF Head(toks).t = "dir"
                            THEN <<<<Head(toks).c, SubSeq(text, p, p + cands[k] - 1)>>>>
                            ELSE <<>>) \o r.groups]
          ELSE FirstMatch(cands, k + 1, toks, text, p)

HasGroup(groups, dir) == \E k \in 1..Len(groups) : groups[k][1] = dir
Group(groups, dir) == groups[CHOOSE k \in 1..Len(groups) : groups[k][1] = dir][2]
\* int(found_dict[dir]); %d may have matched " 5"
GroupInt(groups, dir, default) ==
  IF HasGroup(groups, dir)
  THEN ToInt(SelectSeq(Group(groups, dir), LAMBDA c : c \in Digits))
  ELSE default

\* The fraction: s += "0" * (6 - len(s)); int(s)
RECURSIVE PadRight(_, _)
PadRight(ds, n) == IF Len(ds) >= n THEN ds ELSE PadRight(ds \o <<"0">>, n)

\* gmtoff of a %z group: "Z" is 0, else the signed hours and minutes
GmtOff(z) ==
  IF z = <<"Z">> THEN 0
  ELSE LET body == SelectSeq(z, LAMBDA c : c # ":")
           secs == ToInt(SubSeq(body, 2, 3)) * 3600 + ToInt(SubSeq(body, 4, 5)) * 60
       IN IF body[1] = "-" THEN 0 - secs ELSE secs

\* What evaluating an expression gives: a value, or the exception raised.
Raise(kind, msg) == [exc |-> kind, msg |-> msg]
Value(v) == [exc |-> "none", val |-> v]
\* An exception raised by r propagates; otherwise Rest goes on with r's value.
Then(r, Rest(_)) == IF r.exc # "none" THEN r ELSE Rest(r.val)

\* The fields of a datetime; offset is the utcoffset in seconds of an aware
\* value (tzinfo set), zone names the tzinfo ("fixed" for a timezone(offset),
\* "" for none), and fold is the fold attribute.
DateTime(y, mo, d, h, mi, s, us, aware, offset, zone, fold) ==
  [year |-> y, month |-> mo, day |-> d, hour |-> h, minute |-> mi,
   second |-> s, microsecond |-> us, aware |-> aware, offset |-> offset,
   zone |-> zone, fold |-> fold]

Strptime(text, fmt) ==
  LET toks == Tokenize(fmt, 1)
      last == IF toks = <<>> THEN [t |-> "lit", c |-> ""] ELSE toks[Len(toks)]
      dirs == SelectSeq(toks, LAMBDA k : k.t = "dir")
      dup  == \E i, j \in 1..Len(dirs) : i < j /\ dirs[i].c = dirs[j].c
      m    == Match(toks, text, 1)
      g    == m.groups
      mo   == GroupInt(g, "m", 1)
      d    == GroupInt(g, "d", 1)
      \* without %Y the year is 1900 (a 29 February is then no date)
      y    == GroupInt(g, "Y", 1900)
      h    == GroupInt(g, "H", 0)
      mi   == GroupInt(g, "M", 0)
      s    == GroupInt(g, "S", 0)
      us   == IF HasGroup(g, "f") THEN ToInt(PadRight(Group(g, "f"), 6)) ELSE 0
      hasZ == HasGroup(g, "z")
      off  == IF hasZ THEN GmtOff(Group(g, "z")) ELSE 0
  IN IF last.t = "bad" THEN Raise("ValueError", "bad directive in format")
     ELSE IF last.t = "stray" THEN Raise("ValueError", "stray % in format")
     ELSE IF dup THEN Raise("re.error", "redefinition of group name")
     ELSE IF ~m.ok THEN Raise("ValueError", "time data does not match format")
     ELSE IF m.end # Len(text) + 1 THEN Raise("ValueError", "unconverted data remains")
     ELSE IF y < MINYEAR \/ y > MAXYEAR THEN Raise("ValueError", "year is out of range")
     ELSE IF d > DaysInMonth(y, mo) THEN Raise("ValueError", "day is out of range for month")
     ELSE IF hasZ /\ (off <= 0 - SecPerDay \/ off >= SecPerDay)
       THEN Raise("ValueError", "offset must be strictly between -24h and 24h")
     ELSE IF s > 59 THEN Raise("ValueError", "second must be in 0..59")
     ELSE Value(DateTime(y, mo, d, h, mi, s, us, hasZ, off,
                         IF hasZ THEN "fixed" ELSE "", 0))

(***************************************************************************)
(* Instants.  <<d, s>> is d days and s seconds (0 <= s < 86400) from the   *)
(* epoch; the same pair counts the seconds of a naive datetime read as if  *)
(* it were UTC (the library's utc_to_seconds).                             *)
(***************************************************************************)
Shift(p, n) == <<p[1] + ((p[2] + n) \div SecPerDay), (p[2] + n) % SecPerDay>>
Before(p, q) == p[1] < q[1] \/ (p[1] = q[1] /\ p[2] < q[2])
AtOrAfter(p, q) == ~Before(p, q)
\* p - q in seconds, for instants a few days apart
Gap(p, q) == (p[1] - q[1]) * SecPerDay + (p[2] - q[2])

UtcToSeconds(dt) ==
  <<Ymd2Ord(dt.year, dt.month, dt.day) - EpochOrdinal,
    dt.hour * 3600 + dt.minute * 60 + dt.second>>

InYearRange(p) == p[1] + EpochOrdinal >= 1 /\ p[1] + EpochOrdinal <= MaxOrdinal

\* The datetime whose fields read p (which must lie in the year range).
FromSeconds(p, us, aware, offset, zone, fold) ==
  LET On(ymd) == DateTime(ymd.year, ymd.month, ymd.day, p[2] \div 3600,
                           (p[2] % 3600) \div 60, p[2] % 60, us, aware, offset, zone, fold)
  IN On(Ord2Ymd(p[1] + EpochOrdinal))

(***************************************************************************)
(* The timezone database (zoneinfo).  Three zones stand for it: UTC, a     *)
(* zone with a fixed offset, and a zone with daylight saving, which here   *)
(* carries the transitions of 2024 and 2025 and standard time around them. *)
(***************************************************************************)
available_timezones == {"America/New_York", "Asia/Tokyo", "UTC"}
\* sorted(list(available_timezones()))
SortedZones == <<"America/New_York", "Asia/Tokyo", "UTC">>

Day(y, m, d) == Ymd2Ord(y, m, d) - EpochOrdinal
\* <<start of daylight time, return to standard time>>, both UTC
DstPeriods ==
  { << <<Day(2024, 3, 10), 7 * 3600>>, <<Day(2024, 11, 3), 6 * 3600>> >>,
    << <<Day(2025, 3, 9), 7 * 3600>>,  <<Day(2025, 11, 2), 6 * 3600>> >> }

\* ZoneInfo(zone).utcoffset at the UTC instant u, in seconds
UtcOffset(zone, u) ==
  CASE zone = "UTC" -> 0
    [] zone = "Asia/Tokyo" -> 9 * 3600
    [] zone = "America/New_York" ->
         IF \E pd \in DstPeriods : AtOrAfter(u, pd[1]) /\ Before(u, pd[2])
         THEN 0 - 4 * 3600 ELSE 0 - 5 * 3600

\* the second occurrence of a wall time repeated after a return to standard time
InFold(zone, u) ==
  /\ zone = "America/New_York"
  /\ \E pd \in DstPeriods : AtOrAfter(u, pd[2]) /\ Before(u, Shift(pd[2], 3600))

\* tzname(): %Z
Abbreviation(zone, offset) ==
  CASE zone = "UTC" -> "UTC"
    [] zone = "Asia/Tokyo" -> "JST"
    [] zone = "America/New_York" -> IF offset = 0 - 4 * 3600 THEN "EDT" ELSE "EST"
    [] OTHER -> ""

(***************************************************************************)
(* The host: its local zone, the width of the C library's time_t, and      *)
(* whether its strftime pads %Y to four digits.                            *)
(***************************************************************************)
TimeTMin32 == <<0 - 24856, 74752>>
TimeTMax32 == <<24855, 11647>>
FitsTimeT(h, u) ==
  h.timeT = 64 \/ (AtOrAfter(u, TimeTMin32) /\ ~Before(TimeTMax32, u))

\* time.localtime(u) followed by the library's range check: the local wall
\* time as seconds, or the fault raised.
Local(h, u) ==
  IF ~FitsTimeT(h, u) THEN Raise("OverflowError", "timestamp out of range for platform time_t")
  ELSE LET w == Shift(u, UtcOffset(h.tz, u))
       IN IF InYearRange(w) THEN Value(w) ELSE Raise("ValueError", "year is out of range")

max_fold_seconds == 86400

\* local_to_seconds: solve t = local(u) for u, the wall time t of a naive
\* datetime; a repeated wall time resolves by fold, one in a gap by the rule
\* of the library.
LocalToSeconds(h, t, fold) ==
  Then(Local(h, t), LAMBDA lt :
    Then(Local(h, Shift(t, 0 - Gap(lt, t))), LAMBDA t1 :
      LET a  == Gap(lt, t)
          u1 == Shift(t, 0 - a)
          u2 == Shift(u1, IF fold = 1 THEN max_fold_seconds ELSE 0 - max_fold_seconds)
          \* the last part, once the second offset b is known
          Rest(b) ==
            Then(Local(h, Shift(t, 0 - b)), LAMBDA t2 :
              IF t2 = t THEN Value(Shift(t, 0 - b))
              ELSE IF t1 = t THEN Value(u1)
              ELSE IF Before(u1, Shift(t, 0 - b)) = (fold = 1)
                THEN Value(u1) ELSE Value(Shift(t, 0 - b)))
      IN IF t1 = t
         THEN Then(Local(h, u2), LAMBDA l2 :
                IF Gap(l2, u2) = a THEN Value(u1) ELSE Rest(Gap(l2, u2)))
         ELSE Rest(Gap(t1, u1))))

\* datetime.timestamp(): [d, s, us] since the epoch, or the fault raised.
Timestamp(h, dt) ==
  IF dt.aware
  THEN LET u == Shift(UtcToSeconds(dt), 0 - dt.offset)
       IN Value([d |-> u[1], s |-> u[2], us |-> dt.microsecond])
  ELSE Then(LocalToSeconds(h, UtcToSeconds(dt), dt.fold), LAMBDA u :
         Value([d |-> u[1], s |-> u[2], us |-> dt.microsecond]))

\* int(x) of a float x = d days + s seconds + us microseconds: towards zero
IntOf(x) == IF x.d < 0 /\ x.us > 0 THEN Shift(<<x.d, x.s>>, 1) ELSE <<x.d, x.s>>

\* datetime.fromtimestamp(t + us/10^6, tz) for t = <<d, s>>; zone "" is None
FromTimestampUs(h, t, us, zone) ==
  IF ~FitsTimeT(h, t) THEN Raise("OverflowError", "timestamp out of range for platform time_t")
  ELSE IF zone # ""
  THEN \* gmtime, then tz.fromutc
       IF ~InYearRange(t) THEN Raise("ValueError", "year is out of range")
       ELSE IF ~InYearRange(Shift(t, UtcOffset(zone, t)))
         THEN Raise("OverflowError", "date value out of range")
       ELSE Value(FromSeconds(Shift(t, UtcOffset(zone, t)), us, TRUE, UtcOffset(zone, t),
                              zone, IF InFold(zone, t) THEN 1 ELSE 0))
  ELSE \* localtime, then the probe a day back that detects a fold
       Then(Local(h, t), LAMBDA r :
         Then(Local(h, Shift(t, 0 - max_fold_seconds)), LAMBDA p1 :
           LET trans == Gap(r, p1) - max_fold_seconds
           IN IF trans >= 0 THEN Value(FromSeconds(r, us, FALSE, 0, "", 0))
              ELSE Then(Local(h, Shift(t, trans)), LAMBDA p2 :
                     Value(FromSeconds(r, us, FALSE, 0, "", IF p2 = r THEN 1 ELSE 0)))))

\* a conversion that reads the clock where it should read its argument
FromTimestampOfClock(h, t, zone) == FromTimestampUs(h, <<now.d, now.s>>, 0, zone)

FromTimestamp(h, t, zone) == FromTimestampUs(h, t, 0, zone)

\* datetime.now(tz) at the wall-clock instant n = [d, s, us]
Now(h, n, zone) == FromTimestampUs(h, <<n.d, n.s>>, n.us, zone)

(***************************************************************************)
(* Rendering: strftime and isoformat.  A rendered text is a sequence of    *)
(* characters, except that a weekday, month, AM/PM or zone name is one     *)
(* element.                                                                *)
(***************************************************************************)
RECURSIVE Pad(_, _)
\* the decimal digits of n >= 0, zero-padded to at least width
Pad(n, width) ==
  IF n < 10 /\ width <= 1 THEN <<DigitSeq[n + 1]>>
  ELSE Pad(n \div 10, width - 1) \o <<DigitSeq[(n % 10) + 1]>>

WeekdayNames == <<"Monday", "Tuesday", "Wednesday", "Thursday", "Friday",
                  "Saturday", "Sunday">>
MonthNames == <<"January", "February", "March", "April", "May", "June", "July",
                "August", "September", "October", "November", "December">>

\* utcoffset as sign, hours, minutes and, if any, seconds
OffsetText(off, sep) ==
  LET a == IF off < 0 THEN 0 - off ELSE off
  IN <<IF off < 0 THEN "-" ELSE "+">> \o Pad(a \div 3600, 2) \o sep
     \o Pad((a % 3600) \div 60, 2)
     \o (IF a % 60 # 0 THEN sep \o Pad(a % 60, 2) ELSE <<>>)

Directive(h, dt, c) ==
  CASE c = "Y" -> IF h.padYear THEN Pad(dt.year, 4) ELSE Pad(dt.year, 1)
    [] c = "m" -> Pad(dt.month, 2)
    [] c = "d" -> Pad(dt.day, 2)
    [] c = "H" -> Pad(dt.hour, 2)
    [] c = "M" -> Pad(dt.minute, 2)
    [] c = "S" -> Pad(dt.second, 2)
    [] c = "f" -> Pad(dt.microsecond, 6)
    [] c = "I" -> Pad(((dt.hour + 11) % 12) + 1, 2)
    [] c = "p" -> <<IF dt.hour < 12 THEN "AM" ELSE "PM">>
    [] c = "A" -> <<WeekdayNames[Weekday(Ymd2Ord(dt.year, dt.month, dt.day)) + 1]>>
    [] c = "B" -> <<MonthNames[dt.month]>>
    [] c = "z" -> IF dt.aware THEN OffsetText(dt.offset, <<>>) ELSE <<>>
    [] c = "Z" -> IF dt.aware THEN <<Abbreviation(dt.zone, dt.offset)>> ELSE <<>>
    [] c = "%" -> <<"%">>

RECURSIVE StrftimeFrom(_, _, _, _)
StrftimeFrom(h, dt, fmt, i) ==
  IF i > Len(fmt) THEN <<>>
  ELSE IF fmt[i] = "%" /\ i < Len(fmt)
    THEN Directive(h, dt, fmt[i + 1]) \o StrftimeFrom(h, dt, fmt, i + 2)
  ELSE <<fmt[i]>> \o StrftimeFrom(h, dt, fmt, i + 1)

Strftime(h, dt, fmt) == StrftimeFrom(h, dt, fmt, 1)

IsoFormat(dt) ==
  Pad(dt.year, 4) \o <<"-">> \o Pad(dt.month, 2) \o <<"-">> \o Pad(dt.day, 2)
  \o <<"T">> \o Pad(dt.hour, 2) \o <<":">> \o Pad(dt.minute, 2) \o <<":">>
  \o Pad(dt.second, 2)
  \o (IF dt.microsecond # 0 THEN <<".">> \o Pad(dt.microsecond, 6) ELSE <<>>)
  \o (IF dt.aware THEN OffsetText(dt.offset, <<":">>) ELSE <<>>)

\* the formats the tools render with
FmtDate == <<"%", "Y", "-", "%", "m", "-", "%", "d">>
FmtTime == <<"%", "H", ":", "%", "M", ":", "%", "S">>
FmtTime12 == <<"%", "I", ":", "%", "M", ":", "%", "S", " ", "%", "p">>
FmtLong == <<"%", "A", ",", " ", "%", "B", " ", "%", "d", ",", " ", "%", "Y",
             " ", "a", "t", " ">> \o FmtTime12
\* the default format_string
FmtDefault == FmtDate \o <<" ">> \o FmtTime

(***************************************************************************)
(* timedelta: normalised to days, 0 <= seconds < 86400 and                 *)
(* 0 <= microseconds < 10^6, so a negative duration has negative days.     *)
(***************************************************************************)
MaxDeltaDays == 999999999

TimeDelta(days, seconds, microseconds) ==
  LET s == seconds + (microseconds \div 1000000)
  IN [days |-> days + (s \div SecPerDay), seconds |-> s % SecPerDay,
      microseconds |-> microseconds % 1000000]

\* dt2 - dt1 (both aware or both naive)
Minus(dt2, dt1) ==
  LET p2 == Shift(UtcToSeconds(dt2), 0 - dt2.offset)
      p1 == Shift(UtcToSeconds(dt1), 0 - dt1.offset)
  IN TimeDelta(p2[1] - p1[1], p2[2] - p1[2], dt2.microsecond - dt1.microsecond)

Neg(td) == TimeDelta(0 - td.days, 0 - td.seconds, 0 - td.microseconds)
Abs(td) == IF td.days < 0 THEN Neg(td) ELSE td

\* total_seconds(), as sign and magnitude: sign * (days * 86400 + seconds +
\* microseconds / 10^6), the magnitude kept in its three parts (the float's
\* rounding is not modelled)
TotalSeconds(td) ==
  LET a == Abs(td)
  IN [sign |-> IF td.days < 0 THEN 0 - 1
               ELSE IF td.days = 0 /\ td.seconds = 0 /\ td.microseconds = 0 THEN 0
               ELSE 1,
      days |-> a.days, seconds |-> a.seconds, microseconds |-> a.microseconds]

\* dt1 < dt2
Less(dt1, dt2) ==
  LET td == Minus(dt2, dt1)
  IN td.days > 0 \/ (td.days = 0 /\ (td.seconds > 0 \/ td.microseconds > 0))

\* dt + td, keeping the tzinfo
Plus(dt, td) ==
  LET ord == Ymd2Ord(dt.year, dt.month, dt.day) + td.days
      sum == TimeDelta(ord, dt.hour * 3600 + dt.minute * 60 + dt.second + td.seconds,
                       dt.microsecond + td.microseconds)
  IN IF sum.days < 1 \/ sum.days > MaxOrdinal
     THEN Raise("OverflowError", "date value out of range")
     ELSE Value(FromSeconds(<<sum.days - EpochOrdinal, sum.seconds>>, sum.microseconds,
                            dt.aware, dt.offset, dt.zone, dt.fold))

\* timedelta(days=, hours=, minutes=, seconds=)
MakeDelta(days, hours, minutes, seconds) ==
  LET td == TimeDelta(days, hours * 3600 + minutes * 60 + seconds, 0)
  IN IF td.days > MaxDeltaDays \/ td.days < 0 - MaxDeltaDays
     THEN Raise("OverflowError", "days must have magnitude <= 999999999")
     ELSE Value(td)

(***************************************************************************)
(* The tools.  Each is its try body, which yields a payload or raises, and *)
(* its except clauses, which turn what was raised into a payload.  An      *)
(* optional argument is [some, name]: None is [some |-> FALSE].            *)
(***************************************************************************)
None == [some |-> FALSE, name |-> ""]
Some(name) == [some |-> TRUE, name |-> name]
\* the truth value of an Optional[str]: None and "" are both false
Truthy(opt) == opt.some /\ opt.name # ""

\* the classes an "except Exception" clause catches
ExceptionClasses == {"ValueError", "OverflowError", "OSError", "TypeError", "re.error"}

Min(a, b) == IF a < b THEN a ELSE b
HintListZones == "Use list_timezones to see available options"

\* try: Body on the value of r; what r or Body raises goes to the except
\* clauses
Try(r, Body(_), Except(_)) ==
  IF r.exc # "none" THEN Except(r) ELSE Body(r.val)

\* server.py 56-57, 88-89, 114-115: except Exception as e
except_any(e) ==
  IF e.exc \in ExceptionClasses THEN [error |-> <<"", e.msg>>]
  ELSE [raised |-> e.exc]

get_current_time(h, n, tz) ==
  IF Truthy(tz) /\ tz.name \notin available_timezones
  THEN [error |-> <<"Invalid timezone: ", tz.name>>,
        available_timezones_sample |-> SubSeq(SortedZones, 1, Min(10, Len(SortedZones)))]
  ELSE Try(IF Truthy(tz) THEN Now(h, n, tz.name) ELSE Now(h, n, ""), LAMBDA nw :
         Try(Timestamp(h, nw), LAMBDA ts :
           [datetime |-> IsoFormat(nw),
            date |-> Strftime(h, nw, FmtDate),
            time |-> Strftime(h, nw, FmtTime),
            time_12h |-> Strftime(h, nw, FmtTime12),
            timezone |-> IF Truthy(tz) THEN tz.name ELSE "local",
            timezone_offset |-> Strftime(h, nw, <<"%", "z">>),
            day_of_week |-> Strftime(h, nw, <<"%", "A">>),
            unix_timestamp |-> IntOf(ts),
            formatted |-> Strftime(h, nw, FmtLong)],
           except_any),
         except_any)

get_timezone_info(h, n, tz) ==
  IF tz \notin available_timezones
  THEN [error |-> <<"Invalid timezone: ", tz>>, hint |-> HintListZones]
  ELSE Try(Now(h, n, tz), LAMBDA nw :
         [timezone |-> tz,
          current_time |-> IsoFormat(nw),
          offset |-> Strftime(h, nw, <<"%", "z">>),
          \* utcoffset().total_seconds() / 3600, kept as the seconds it divides
          offset_hours |-> [seconds |-> nw.offset, per |-> 3600],
          abbreviation |-> Strftime(h, nw, <<"%", "Z">>)],
         except_any)

\* the characters of each zone name, for str.lower() and the substring test
ZoneChars(z) ==
  CASE z = "UTC" -> <<"U", "T", "C">>
    [] z = "Asia/Tokyo" -> <<"A", "s", "i", "a", "/", "T", "o", "k", "y", "o">>
    [] z = "America/New_York" ->
         <<"A", "m", "e", "r", "i", "c", "a", "/", "N", "e", "w", "_", "Y", "o", "r", "k">>

LowerAll(cs) == [i \in 1..Len(cs) |-> Lower(cs[i])]
\* a in b, for strings
Contains(b, a) ==
  \E i \in 1..(Len(b) - Len(a) + 1) : SubSeq(b, i, i + Len(a) - 1) = a

\* filter_text is [some, chars]
list_timezones(filter_text) ==
  LET zones == IF filter_text.some /\ filter_text.chars # <<>>
               THEN SelectSeq(SortedZones,
                              LAMBDA z : Contains(LowerAll(ZoneChars(z)),
                                                  LowerAll(filter_text.chars)))
               ELSE SortedZones
  IN [count |-> Len(zones), timezones |-> zones]

\* server.py 151-157: except ValueError, then except Exception
except_parse_datetime(e) ==
  IF e.exc = "ValueError"
  THEN [error |-> <<"Failed to parse date: ", e.msg>>,
        hint |-> "Check that your date_string matches the format_string"]
  ELSE IF e.exc \in ExceptionClasses THEN [error |-> <<"", e.msg>>]
  ELSE [raised |-> e.exc]

parse_datetime(h, n, date_string, format_string) ==
  Try(Strptime(date_string, format_string), LAMBDA dt :
    Try(Timestamp(h, dt), LAMBDA ts :
      Try(IF dt.aware
          THEN Raise("TypeError", "can't compare offset-naive and offset-aware datetimes")
          ELSE Now(h, n, ""), LAMBDA nw :
        [original |-> date_string,
         parsed |-> IsoFormat(dt),
         date |-> Strftime(h, dt, FmtDate),
         time |-> Strftime(h, dt, FmtTime),
         day_of_week |-> Strftime(h, dt, <<"%", "A">>),
         unix_timestamp |-> IntOf(ts),
         is_past |-> Less(dt, nw),
         is_future |-> Less(nw, dt)],
        except_parse_datetime),
      except_parse_datetime),
    except_parse_datetime)

\* server.py 203-209
except_compare_times(e) ==
  IF e.exc = "ValueError"
  THEN [error |-> <<"Failed to parse dates: ", e.msg>>,
        hint |-> "Check that both time strings match the format_string"]
  ELSE IF e.exc \in ExceptionClasses THEN [error |-> <<"", e.msg>>]
  ELSE [raised |-> e.exc]

\* a decomposition that forgets the remainder of the hours
DecomposeNoRemainder(abs_diff) ==
  [days |-> abs_diff.days,
   hours |-> abs_diff.seconds \div 3600,
   minutes |-> abs_diff.seconds \div 60,
   seconds |-> abs_diff.seconds % 60]

\* server.py 183-186, 193-198: days = abs_diff.days, then divmod of
\* abs_diff.seconds by 3600 and of the remainder by 60
Decompose(abs_diff) ==
  [days |-> abs_diff.days,
   hours |-> abs_diff.seconds \div 3600,
   minutes |-> (abs_diff.seconds % 3600) \div 60,
   seconds |-> (abs_diff.seconds % 3600) % 60]

\* server.py 181-200: the payload for the two parsed datetimes, diff = dt2 - dt1
\* and abs_diff = abs(diff)
comparison(dt1, dt2, diff, abs_diff) ==
  [time1 |-> IsoFormat(dt1),
   time2 |-> IsoFormat(dt2),
   difference_seconds |-> TotalSeconds(diff),
   difference_days |-> diff.days,
   difference_formatted |-> Decompose(abs_diff),
   time1_is_before_time2 |-> Less(dt1, dt2),
   time1_is_after_time2 |-> Less(dt2, dt1),
   times_are_equal |-> diff = TimeDelta(0, 0, 0)]

compare_times(time1, time2, format_string) ==
  Try(Strptime(time1, format_string), LAMBDA dt1 :
    Try(Strptime(time2, format_string), LAMBDA dt2 :
      comparison(dt1, dt2, Minus(dt2, dt1), Abs(Minus(dt2, dt1))),
      except_compare_times),
    except_compare_times)

\* except clauses that catch the parse error only
except_value_error_only(e) ==
  IF e.exc = "ValueError"
  THEN [error |-> <<"Failed to parse date: ", e.msg>>,
        hint |-> "Check that your base_time matches the format_string"]
  ELSE [raised |-> e.exc]

\* server.py 253-259
except_add_time_delta(e) ==
  IF e.exc = "ValueError"
  THEN [error |-> <<"Failed to parse date: ", e.msg>>,
        hint |-> "Check that your base_time matches the format_string"]
  ELSE IF e.exc \in ExceptionClasses THEN [error |-> <<"", e.msg>>]
  ELSE [raised |-> e.exc]

add_time_delta(h, base_time, days, hours, minutes, seconds, format_string) ==
  Try(Strptime(base_time, format_string), LAMBDA dt :
    Try(MakeDelta(days, hours, minutes, seconds), LAMBDA delta :
      Try(Plus(dt, delta), LAMBDA new_dt :
        Try(Timestamp(h, new_dt), LAMBDA ts :
          [original |-> IsoFormat(dt),
           delta_applied |-> [days |-> days, hours |-> hours, minutes |-> minutes,
                              seconds |-> seconds],
           result |-> IsoFormat(new_dt),
           formatted |-> Strftime(h, new_dt, FmtLong),
           unix_timestamp |-> IntOf(ts)],
          except_add_time_delta),
        except_add_time_delta),
      except_add_time_delta),
    except_add_time_delta)

\* server.py 284-294: both clauses return valid = False
except_is_valid_datetime(e) ==
  IF e.exc = "ValueError"
  THEN [valid |-> FALSE, error |-> <<"", e.msg>>,
        message |-> "Failed to parse datetime with given format"]
  ELSE IF e.exc \in ExceptionClasses THEN [valid |-> FALSE, error |-> <<"", e.msg>>]
  ELSE [raised |-> e.exc]

is_valid_datetime(date_string, format_string) ==
  Try(Strptime(date_string, format_string), LAMBDA dt :
    [valid |-> TRUE, parsed |-> IsoFormat(dt),
     message |-> "Successfully parsed datetime"],
    except_is_valid_datetime)

\* server.py 331-337: except (ValueError, OSError), then except Exception
except_unix_to_datetime(e) ==
  IF e.exc \in {"ValueError", "OSError"}
  THEN [error |-> <<"Invalid timestamp: ", e.msg>>,
        hint |-> "Timestamp should be a valid Unix timestamp in seconds"]
  ELSE IF e.exc \in ExceptionClasses THEN [error |-> <<"", e.msg>>]
  ELSE [raised |-> e.exc]

unix_to_datetime(h, timestamp, tz) ==
  IF Truthy(tz) /\ tz.name \notin available_timezones
  THEN [error |-> <<"Invalid timezone: ", tz.name>>, hint |-> HintListZones]
  ELSE Try(IF Truthy(tz) THEN FromTimestamp(h, timestamp, tz.name)
           ELSE FromTimestamp(h, timestamp, ""), LAMBDA dt :
         [unix_timestamp |-> timestamp,
          datetime |-> IsoFormat(dt),
          date |-> Strftime(h, dt, FmtDate),
          time |-> Strftime(h, dt, FmtTime),
          formatted |-> Strftime(h, dt, FmtLong),
          timezone |-> IF Truthy(tz) THEN tz.name ELSE "local"],
         except_unix_to_datetime)

(***************************************************************************)
(* The arguments the model draws from.                                     *)
(***************************************************************************)
TextNewYear == <<"2", "0", "2", "5", "-", "0", "1", "-", "0", "1", " ", "0", "0", ":", "0", "0", ":", "0", "0">>  \* "2025-01-01 00:00:00"
TextYearEnd == <<"2", "0", "2", "5", "-", "1", "2", "-", "3", "1", " ", "2", "3", ":", "5", "9", ":", "5", "9">>  \* "2025-12-31 23:59:59"
TextSecondLater == <<"2", "0", "2", "5", "-", "0", "1", "-", "0", "1", " ", "0", "0", ":", "0", "0", ":", "0", "1">>  \* "2025-01-01 00:00:01"
TextFoldWall == <<"2", "0", "2", "4", "-", "1", "1", "-", "0", "3", " ", "0", "1", ":", "3", "0", ":", "0", "0">>  \* "2024-11-03 01:30:00"
TextSoon == <<"2", "0", "2", "4", "-", "1", "1", "-", "0", "3", " ", "0", "6", ":", "0", "0", ":", "0", "0">>  \* "2024-11-03 06:00:00"
TextUnpadded == <<"2", "0", "2", "5", "-", "1", "-", "5", " ", "3", ":", "4", ":", "5">>  \* "2025-1-5 3:4:5"
TextTwoBlanks == <<"2", "0", "2", "5", "-", "0", "1", "-", "0", "5", " ", " ", "0", "3", ":", "0", "4", ":", "0", "5">>  \* "2025-01-05  03:04:05"
TextFeb30 == <<"2", "0", "2", "5", "-", "0", "2", "-", "3", "0", " ", "0", "0", ":", "0", "0", ":", "0", "0">>  \* "2025-02-30 00:00:00"
TextSecond60 == <<"2", "0", "2", "5", "-", "0", "1", "-", "0", "5", " ", "0", "3", ":", "0", "4", ":", "6", "0">>  \* "2025-01-05 03:04:60"
TextNotADate == <<"n", "o", "t", " ", "a", " ", "d", "a", "t", "e">>  \* "not a date"
TextDateOnly == <<"2", "0", "2", "5", "-", "0", "1", "-", "0", "1">>  \* "2025-01-01"
TextOffset == <<"2", "0", "2", "5", "-", "0", "1", "-", "0", "5", " ", "+", "0", "1", "0", "0">>  \* "2025-01-05 +0100"
TextOffsetColon == <<"2", "0", "2", "5", "-", "0", "1", "-", "0", "5", " ", "-", "0", "1", ":", "0", "0">>  \* "2025-01-05 -01:00"
TextHalfSecond == <<"0", "0", ":", "0", "0", ":", "0", "0", ".", "5">>  \* "00:00:00.5"
TextOneSecond == <<"0", "0", ":", "0", "0", ":", "0", "1", ".", "0", "0", "0", "0", "0", "0">>  \* "00:00:01.000000"
TextFirstDay == <<"0", "0", "0", "1", "-", "0", "1", "-", "0", "1", " ", "0", "0", ":", "0", "0", ":", "0", "0">>  \* "0001-01-01 00:00:00"
TextLastSecond == <<"9", "9", "9", "9", "-", "1", "2", "-", "3", "1", " ", "2", "3", ":", "5", "9", ":", "5", "9">>  \* "9999-12-31 23:59:59"
Texts ==
  {TextNewYear, TextYearEnd, TextSecondLater, TextFoldWall, TextSoon, TextUnpadded,
   TextTwoBlanks, TextFeb30, TextSecond60, TextNotADate, TextDateOnly, TextOffset,
   TextOffsetColon, TextHalfSecond, TextOneSecond, TextFirstDay, TextLastSecond}

FmtWithOffset == FmtDate \o <<" ", "%", "z">>
FmtFraction == FmtTime \o <<".", "%", "f">>
FmtBadDirective == <<"%", "Q">>
FmtTwice == <<"%", "d", " ", "%", "d">>
Formats == {FmtDefault, FmtDate, FmtWithOffset, FmtFraction, FmtBadDirective, FmtTwice}

\* days, hours, minutes, seconds
Deltas ==
  { <<0, 0, 0, 0>>, <<10, 5, 0, 0>>, <<0 - 10, 0 - 5, 0, 0>>, <<0, 0, 0, 1>>,
    <<0, 0, 0, 0 - 1>>, <<1, 0 - 25, 61, 0 - 3601>>, <<366, 0, 0, 0>>,
    <<0 - 1, 23, 59, 60>>, <<1000000000, 0, 0, 0>> }

ZoneArgs == {None, Some(""), Some("UTC"), Some("Asia/Tokyo"), Some("America/New_York"),
             Some("Mars/Phobos")}

\* 1732204800; 0; -1; the two instants that read 01:30 on 2024-11-03 in New
\* York; the last second of year 9999 and the one after; 2^31; the first
\* second of year 1
Timestamps ==
  { <<20048, 57600>>, <<0, 0>>, <<0 - 1, 86399>>, <<20030, 19800>>, <<20030, 23400>>,
    <<2932896, 86399>>, <<2932897, 0>>, <<24855, 11648>>, <<0 - 719162, 0>> }

Filters ==
  { [some |-> FALSE, chars |-> <<>>], [some |-> TRUE, chars |-> <<>>],
    [some |-> TRUE, chars |-> <<"A", "m", "e", "r", "i", "c", "a">>],
    [some |-> TRUE, chars |-> <<"u", "t", "c">>],
    [some |-> TRUE, chars |-> <<"x">>] }

Hosts ==
  { [tz |-> "UTC", timeT |-> 64, padYear |-> FALSE],
    [tz |-> "America/New_York", timeT |-> 64, padYear |-> FALSE],
    [tz |-> "Asia/Tokyo", timeT |-> 32, padYear |-> TRUE] }

\* The wall clock starts at 2024-11-03 05:30:00.25 UTC, half an hour before
\* New York returns to standard time, and advances an hour at a time.
ClockStart == [d |-> Day(2024, 11, 3), s |-> 5 * 3600 + 1800, us |-> 250000]
MaxTicks == 2
Ticks(n) == Gap(<<n.d, n.s>>, <<ClockStart.d, ClockStart.s>>) \div 3600

(***************************************************************************)
(* The state machine.  The server keeps no state between calls, so a       *)
(* behaviour is one call, which may be issued again, unchanged, when the   *)
(* clock has advanced.                                                     *)
(***************************************************************************)
NoCall == [op |-> "none"]
NoReply == [none |-> TRUE]

Init ==
  /\ host \in Hosts
  /\ now = ClockStart
  /\ call = NoCall
  /\ reply = NoReply
  /\ prior = NoReply

Tick ==
  /\ Ticks(now) < MaxTicks
  /\ now' = [now EXCEPT !.d = Shift(<<now.d, now.s>>, 3600)[1],
                        !.s = Shift(<<now.d, now.s>>, 3600)[2]]
  /\ UNCHANGED <<host, call, reply, prior>>

Invoke(c) ==
  CASE c.op = "get_current_time" -> get_current_time(host, now, c.tz)
    [] c.op = "get_timezone_info" -> get_timezone_info(host, now, c.tz)
    [] c.op = "list_timezones" -> list_timezones(c.filter_text)
    [] c.op = "parse_datetime" -> parse_datetime(host, now, c.date_string, c.format_string)
    [] c.op = "compare_times" -> compare_times(c.time1, c.time2, c.format_string)
    [] c.op = "add_time_delta" ->
         add_time_delta(host, c.base_time, c.days, c.hours, c.minutes, c.seconds,
                        c.format_string)
    [] c.op = "is_valid_datetime" -> is_valid_datetime(c.date_string, c.format_string)
    [] c.op = "unix_to_datetime" -> unix_to_datetime(host, c.timestamp, c.tz)

\* a client calls a tool: c is the call, r what the tool returns
Request(c, r) ==
  /\ call = NoCall
  /\ call' = c
  /\ reply' = r
  /\ prior' = NoReply
  /\ UNCHANGED <<host, now>>

GetCurrentTime ==
  \E tz \in ZoneArgs :
    Request([op |-> "get_current_time", at |-> now, tz |-> tz],
            get_current_time(host, now, tz))

GetTimezoneInfo ==
  \E tz \in ZoneArgs :
    /\ tz.some
    /\ Request([op |-> "get_timezone_info", at |-> now, tz |-> tz.name],
               get_timezone_info(host, now, tz.name))

ListTimezones ==
  \E f \in Filters :
    Request([op |-> "list_timezones", at |-> now, filter_text |-> f], list_timezones(f))

ParseDatetime ==
  \E t \in Texts, f \in Formats :
    Request([op |-> "parse_datetime", at |-> now, date_string |-> t, format_string |-> f],
            parse_datetime(host, now, t, f))

CompareTimes ==
  \E t1 \in Texts, t2 \in Texts, f \in Formats :
    Request([op |-> "compare_times", at |-> now, time1 |-> t1, time2 |-> t2,
             format_string |-> f],
            compare_times(t1, t2, f))

AddTimeDelta ==
  \E t \in Texts, f \in Formats, d \in Deltas :
    Request([op |-> "add_time_delta", at |-> now, base_time |-> t, days |-> d[1],
             hours |-> d[2], minutes |-> d[3], seconds |-> d[4], format_string |-> f],
            add_time_delta(host, t, d[1], d[2], d[3], d[4], f))

IsValidDatetime ==
  \E t \in Texts, f \in Formats :
    Request([op |-> "is_valid_datetime", at |-> now, date_string |-> t,
             format_string |-> f],
            is_valid_datetime(t, f))

UnixToDatetime ==
  \E t \in Timestamps, tz \in ZoneArgs :
    Request([op |-> "unix_to_datetime", at |-> now, timestamp |-> t, tz |-> tz],
            unix_to_datetime(host, t, tz))

\* the same call again, once the clock has moved on
Reissue ==
  /\ call # NoCall
  /\ call.at # now
  /\ call' = [call EXCEPT !.at = now]
  /\ reply' = Invoke(call)
  /\ prior' = reply
  /\ UNCHANGED <<host, now>>

Next ==
  \/ Tick
  \/ GetCurrentTime
  \/ GetTimezoneInfo
  \/ ListTimezones
  \/ ParseDatetime
  \/ CompareTimes
  \/ AddTimeDelta
  \/ IsValidDatetime
  \/ UnixToDatetime
  \/ Reissue

Spec == Init /\ [][Next]_vars

(***************************************************************************)
(* The properties.  They speak of the last call and what it returned.      *)
(***************************************************************************)
\* the fields of each tool's success payload
SuccessFields(op) ==
  CASE op = "get_current_time" ->
         {"datetime", "date", "time", "time_12h", "timezone", "timezone_offset",
          "day_of_week", "unix_timestamp", "formatted"}
    [] op = "get_timezone_info" ->
         {"timezone", "current_time", "offset", "offset_hours", "abbreviation"}
    [] op = "list_timezones" -> {"count", "timezones"}
    [] op = "parse_datetime" ->
         {"original", "parsed", "date", "time", "day_of_week", "unix_timestamp",
          "is_past", "is_future"}
    [] op = "compare_times" ->
         {"time1", "time2", "difference_seconds", "difference_days",
          "difference_formatted", "time1_is_before_time2", "time1_is_after_time2",
          "times_are_equal"}
    [] op = "add_time_delta" ->
         {"original", "delta_applied", "result", "formatted", "unix_timestamp"}
    [] op = "is_valid_datetime" -> {"valid", "parsed", "message"}
    [] op = "unix_to_datetime" ->
         {"unix_timestamp", "datetime", "date", "time", "formatted", "timezone"}

Called(op) == call.op = op
Failed == "error" \in DOMAIN reply
Succeeded == call # NoCall /\ DOMAIN reply = SuccessFields(call.op)
ErrorPayload == Failed /\ ~(SuccessFields(call.op) \subseteq DOMAIN reply)

\* C1: whatever the tool and its arguments, the call returns one mapping,
\* either the tool's success payload or a payload with an "error" field and
\* without the success fields; no fault escapes to the caller.
C1_NoFaultEscapes ==
  call # NoCall =>
    /\ "raised" \notin DOMAIN reply
    /\ Succeeded # ErrorPayload

\* C1 witness: an addition that leaves the date range came back as an error payload
C1_OverflowReported ==
  /\ Called("add_time_delta")
  /\ Failed
  /\ reply.error = <<"", "date value out of range">>

UnknownZone(tz) == tz.some /\ tz.name \notin available_timezones

\* C2: when unix_to_datetime cannot convert the timestamp (the zone being
\* valid or omitted), its error payload carries a hint.
C2_UnconvertibleHasHint ==
  (Called("unix_to_datetime") /\ ~UnknownZone(call.tz) /\ Failed)
    => "hint" \in DOMAIN reply

InvalidTimezoneError(name) ==
  Failed /\ reply.error = <<"Invalid timezone: ", name>>

\* C3: a zone given as a string that is no name of the database, the empty
\* string included, gets the invalid-timezone error from get_current_time
\* (with a sample of names), get_timezone_info and unix_to_datetime; a name
\* of the database makes get_current_time succeed with that timezone.
C3_UnknownZoneRejected ==
  /\ (Called("get_current_time") /\ UnknownZone(call.tz))
       => (InvalidTimezoneError(call.tz.name)
           /\ "available_timezones_sample" \in DOMAIN reply)
  /\ (Called("unix_to_datetime") /\ UnknownZone(call.tz))
       => InvalidTimezoneError(call.tz.name)
  /\ (Called("get_timezone_info") /\ call.tz \notin available_timezones)
       => InvalidTimezoneError(call.tz)
  /\ (Called("get_current_time") /\ call.tz.some /\ ~UnknownZone(call.tz))
       => (Succeeded /\ reply.timezone = call.tz.name)

\* the instant of a datetime as <<days, seconds>> UTC
Instant(dt) == Shift(UtcToSeconds(dt), 0 - dt.offset)
\* b - a computed from the two instants
Elapsed(a, b) ==
  TimeDelta(Instant(b)[1] - Instant(a)[1], Instant(b)[2] - Instant(a)[2],
            b.microsecond - a.microsecond)
\* a sign and magnitude as a duration
Signed(ds) == TimeDelta(ds.sign * ds.days, ds.sign * ds.seconds, ds.sign * ds.microseconds)

Compared == Called("compare_times") /\ ~Failed
First == Strptime(call.time1, call.format_string).val
Second == Strptime(call.time2, call.format_string).val
Swapped == compare_times(call.time2, call.time1, call.format_string)
HmsSeconds(f) == f.hours * 3600 + f.minutes * 60 + f.seconds
InRanges(f) ==
  f.days >= 0 /\ f.hours \in 0..23 /\ f.minutes \in 0..59 /\ f.seconds \in 0..59

Magnitude(n) == IF n < 0 THEN 0 - n ELSE n

\* C5: difference_days is the signed difference in whole days: its sign
\* agrees with that of difference_seconds (zero under one day), its absolute
\* value is difference_formatted.days, and swapping a and b negates it.
C5_SignedWholeDays ==
  Compared =>
    /\ reply.difference_seconds.sign > 0 => reply.difference_days >= 0
    /\ reply.difference_seconds.sign < 0 => reply.difference_days <= 0
    /\ reply.difference_seconds.sign = 0 => reply.difference_days = 0
    /\ Magnitude(reply.difference_days) = reply.difference_formatted.days
    /\ Swapped.difference_days = 0 - reply.difference_days

\* the base of the last add_time_delta, its delta, and the base shifted by it
Base == Strptime(call.base_time, call.format_string)
Delta == MakeDelta(call.days, call.hours, call.minutes, call.seconds)
Shifted == Then(Base, LAMBDA dt : Then(Delta, LAMBDA td : Plus(dt, td)))

\* C6: when the base parses and the shifted instant stays in the
\* representable range, add_time_delta returns that instant as its result,
\* echoes the delta in delta_applied, and the negated delta leads back from
\* the result to the base.
C6_ShiftsExactly ==
  (Called("add_time_delta") /\ Shifted.exc = "none") =>
    /\ Succeeded
    /\ reply.result = IsoFormat(Shifted.val)
    /\ reply.delta_applied = [days |-> call.days, hours |-> call.hours,
                              minutes |-> call.minutes, seconds |-> call.seconds]
    /\ Plus(Shifted.val, Neg(Delta.val)) = Base

Verdict == is_valid_datetime(call.date_string, call.format_string)

\* C7: is_valid_datetime says valid exactly when parse_datetime on the same
\* arguments succeeds, both then reporting the same parsed instant, and says
\* invalid with an error message exactly when parse_datetime returns an error.
C7_ValidIffParses ==
  Called("parse_datetime") =>
    /\ Verdict.valid <=> Succeeded
    /\ Verdict.valid => Verdict.parsed = reply.parsed
    /\ (~Verdict.valid /\ "error" \in DOMAIN Verdict) <=> ErrorPayload

Parsed == Strptime(call.date_string, call.format_string)
Rendered == Strftime(host, Parsed.val, call.format_string)

\* C8: when parse_datetime succeeds, rendering the parsed instant with the
\* same format gives the original text back; a text that the format does not
\* reproduce gets the parse error with its hint.
C8_ParseRoundTrips ==
  Called("parse_datetime") =>
    /\ Succeeded => Rendered = call.date_string
    /\ (Parsed.exc = "none" /\ Rendered # call.date_string)
         => (ErrorPayload /\ "hint" \in DOMAIN reply)

\* a payload without the fields excluded from the comparison
Comparable(r) ==
  IF Called("parse_datetime") /\ {"is_past", "is_future"} \subseteq DOMAIN r
  THEN [k \in DOMAIN r \ {"is_past", "is_future"} |-> r[k]]
  ELSE r

Reissued == prior # NoReply

\* C9 (as the code has it): for every tool other than get_current_time and
\* get_timezone_info, the same call at two wall-clock instants returns the
\* same payload, the is_past and is_future fields of parse_datetime aside.
C9_SameReplyWhenReissued ==
  (Reissued /\ call.op \notin {"get_current_time", "get_timezone_info"})
    => Comparable(prior) = Comparable(reply)

\* C9 witness: a parse was issued again after the clock passed the parsed
\* instant, and only its is_past differs
C9_ParseReissuedAcrossInstant ==
  /\ Reissued
  /\ Called("parse_datetime")
  /\ Succeeded
  /\ prior.is_past # reply.is_past

\* C9 as stated: every tool other than get_current_time, get_timezone_info
\* among them, returns the same payload at any two instants.
C9_AllButCurrentTime ==
  (Reissued /\ ~Called("get_current_time")) => Comparable(prior) = Comparable(reply)

\* the format of the ISO text: offset-less for the local zone
IsoFmt ==
  <<"%", "Y", "-", "%", "m", "-", "%", "d", "T", "%", "H", ":", "%", "M", ":", "%", "S">>
  \o (IF Truthy(call.tz) THEN <<"%", "z">> ELSE <<>>)
\* the returned ISO instant converted back to a timestamp
ConvertedBack == Then(Strptime(reply.datetime, IsoFmt), LAMBDA dt : Timestamp(host, dt))

\* C10: for a timestamp t that unix_to_datetime converts, in a named zone or
\* the local one, the unix_timestamp field is t and the returned ISO instant
\* converts back to t, inside a repeated hour too.
C10_TimestampRoundTrips ==
  (Called("unix_to_datetime") /\ Succeeded) =>
    /\ reply.unix_timestamp = call.timestamp
    /\ ConvertedBack = Value([d |-> call.timestamp[1], s |-> call.timestamp[2], us |-> 0])

====
